---- MODULE Spec2Model ----
(***************************************************************************)
(* bitblas/module/__init__.py: the quantized Linear layer.                 *)
(*                                                                         *)
(*  - Linear.__init__ and Linear._get_or_create_bitblas_operator, run by   *)
(*    several layer constructions against one operator cache (one step of  *)
(*    the model per call into the cache or into the operator);             *)
(*  - Linear.warmup;                                                       *)
(*  - Linear.init_params / Linear.forward (the kernel's argument list);    *)
(*  - Linear.repack_from_gptq / repack_from_gptq_v2 with unpack_qweight,   *)
(*    unpack_qzeros and unpack_qzeros_v2, on torch's fixed-width integers. *)
(***************************************************************************)
EXTENDS Integers, Sequences, FiniteSets

VARIABLES
    \* ---- layer constructions sharing one operator cache ----
    pc,                   \* position of each layer construction
    args,                 \* the constructor arguments each layer stored
    err,                  \* the exception a construction ended with
    bitblas_matmul,       \* the operator handle each layer resolved
    allocated,            \* whether _initialize_buffers has run for the layer
    operator_cache,       \* the shared cache: config -> handle
    database,             \* the configs persisted under database_path
    tuned,                \* handle -> number of hardware_aware_finetune runs on it
    tuning_message_shown, \* Linear._tuning_message_shown
    tuneRuns,             \* history: config -> tuning runs (construction and warmup)
    warmupRuns,           \* history: config -> tuning runs made by warmup
    hydrations,           \* history: number of load_from_database calls
    cacheOps,             \* history: per layer, calls made into the cache
    doneBefore,           \* history: per layer, constructions finished when it began
    db0,                  \* history: the database as it was at process start
    \* ---- one constructed layer: buffers, forward and repack ----
    layer,                \* the layer's operator: config flags, bit, dynamic_range, ...
    weight,               \* the dense weight of a consistent-precision layer
    qweight, scales, zeros, bias,
    q_params,             \* what init_params resolved last
    lib_call,             \* the last argument list handed to bitblas_matmul.lib.call
    n_calls,              \* number of lib.call invocations
    gptq_module,          \* the foreign module of the last repack call
    intzeros,             \* the decoded zero-points of the last repack call
    outcome,              \* how the last load/repack call ended
    \* ---- the zero-point codec on one storage unit ----
    codec                 \* bits, the packed unit and both decodings of it

cacheVars == <<pc, args, err, bitblas_matmul, allocated, operator_cache, database,
               tuned, tuning_message_shown, tuneRuns, warmupRuns, hydrations,
               cacheOps, doneBefore, db0>>
layerVars == <<layer, weight, qweight, scales, zeros, bias, q_params, lib_call, n_calls,
               gptq_module, intzeros, outcome>>
vars == <<cacheVars, layerVars, codec>>

(***************************************************************************)
(* Bounds of the model.                                                    *)
(***************************************************************************)
NumLayers == 3      \* layer constructions sharing the cache
NumModules == 3     \* foreign modules offered to repack
MaxWarmups == 2     \* warmup calls in one behaviour
MaxCalls == 2       \* forward calls in one behaviour

Layers == 1..NumLayers

(***************************************************************************)
(* Arithmetic of the host language.                                        *)
(***************************************************************************)
\* Python's a % b for b # 0: the result takes the sign of the divisor.
PyMod(a, b) == IF b > 0 THEN a % b ELSE -((-a) % (-b))

Put(f, k, v) == [x \in DOMAIN f \cup {k} |-> IF x = k THEN v ELSE f[x]]
Count(f, k) == IF k \in DOMAIN f THEN f[k] ELSE 0
Inc(f, k) == Put(f, k, Count(f, k) + 1)

(***************************************************************************)
(* Layer constructions sharing one operator cache.                         *)
(***************************************************************************)
NoArgs == [in_features |-> 0, out_features |-> 0, group_size |-> 0,
           enable_tuning |-> FALSE]
NoConfig == <<0, 0, 0>>
None == [kind |-> "none", serial |-> 0, config |-> NoConfig]

\* MatmulConfig as far as the constructor's arguments vary here: N, K, group_size.
MatmulConfig(a) == <<a.out_features, a.in_features, a.group_size>>

\* Matmul(config, target, enable_tuning=False): a fresh operator object.
Matmul(l, config) == [kind |-> "built", serial |-> l, config |-> config]

\* The group_size argument is <<>> for None and <<n>> for the integer n.
SetGroupSize(group_size, in_features) ==
    IF group_size = <<>> \/ group_size = <<-1>> THEN in_features ELSE group_size[1]

\* The exception _validate_parameters ends with, "none" when it returns.
ValidateParameters(group_size, in_features, out_features) ==
    IF PyMod(in_features, 16) # 0 \/ PyMod(out_features, 16) # 0 THEN "ValueError"
    ELSE IF group_size = 0 THEN "ZeroDivisionError"
    ELSE IF PyMod(in_features, group_size) # 0 THEN "ValueError"
    ELSE "none"

\* ---- the operator cache (bitblas.cache.OperatorCache) ----
CacheSize(cache) == Cardinality(DOMAIN cache)
CacheGet(cache, config) == IF config \in DOMAIN cache THEN cache[config] ELSE None
CacheAdd(cache, config, op) == Put(cache, config, op)
\* load_from_database instantiates every persisted operator and adds it.
CacheLoad(cache, db, n) ==
    [c \in DOMAIN cache \cup db |->
        IF c \in db THEN [kind |-> "db", serial |-> n, config |-> c] ELSE cache[c]]
\* save_into_database writes every cached operator.
CacheSave(cache, db) == db \cup DOMAIN cache

Running(l) == pc[l] \notin {"idle", "done", "failed"}
NoneRunning == \A l \in Layers : ~Running(l)
Finished == {l \in Layers : pc[l] \in {"done", "failed"}}

\* Linear.__init__ up to and including _validate_parameters.
Construct(l, in_features, out_features, group_size, enable_tuning) ==
    LET gs == SetGroupSize(group_size, in_features)
        e  == ValidateParameters(gs, in_features, out_features)
    IN  /\ pc[l] = "idle"
        /\ args' = [args EXCEPT ![l] = [in_features |-> in_features,
                                        out_features |-> out_features,
                                        group_size |-> gs,
                                        enable_tuning |-> enable_tuning]]
        /\ err' = [err EXCEPT ![l] = e]
        /\ pc' = [pc EXCEPT ![l] = IF e = "none" THEN "size" ELSE "failed"]
        /\ doneBefore' = [doneBefore EXCEPT ![l] = Finished]
        /\ UNCHANGED <<layerVars, codec, bitblas_matmul, allocated, operator_cache, database, tuned,
                       tuning_message_shown, tuneRuns, warmupRuns, hydrations,
                       cacheOps, db0>>

\* if self.operator_cache.size() == 0:
CheckSize(l) ==
    /\ pc[l] = "size"
    /\ pc' = [pc EXCEPT ![l] = IF CacheSize(operator_cache) = 0 THEN "load" ELSE "get"]
    /\ cacheOps' = [cacheOps EXCEPT ![l] = @ + 1]
    /\ UNCHANGED <<layerVars, codec, args, err, bitblas_matmul, allocated, operator_cache, database,
                   tuned, tuning_message_shown, tuneRuns, warmupRuns, hydrations,
                   doneBefore, db0>>

\* self.operator_cache.load_from_database(self.database_path, BITBLAS_TARGET)
LoadFromDatabase(l) ==
    /\ pc[l] = "load"
    /\ LET cache == CacheLoad(operator_cache, database, hydrations + 1)
       IN  /\ operator_cache' = cache
           /\ tuned' = [h \in DOMAIN tuned \cup {cache[c] : c \in database} |->
                           Count(tuned, h)]
    /\ hydrations' = hydrations + 1
    /\ cacheOps' = [cacheOps EXCEPT ![l] = @ + 1]
    /\ pc' = [pc EXCEPT ![l] = "get"]
    /\ UNCHANGED <<layerVars, codec, args, err, bitblas_matmul, allocated, database,
                   tuning_message_shown, tuneRuns, warmupRuns, doneBefore, db0>>

\* Mutant of Lookup: a hit is tuned again when enable_tuning is requested.
Lookup_RetuneOnHit(l) ==
    /\ pc[l] = "get"
    /\ LET m == CacheGet(operator_cache, MatmulConfig(args[l]))
       IN  /\ bitblas_matmul' = [bitblas_matmul EXCEPT ![l] = m]
           /\ pc' = [pc EXCEPT ![l] = IF m = None THEN "build"
                                      ELSE IF args[l].enable_tuning THEN "tune"
                                      ELSE "buffers"]
    /\ cacheOps' = [cacheOps EXCEPT ![l] = @ + 1]
    /\ UNCHANGED <<layerVars, codec, args, err, allocated, operator_cache, database, tuned,
                   tuning_message_shown, tuneRuns, warmupRuns, hydrations,
                   doneBefore, db0>>

\* bitblas_matmul = self.operator_cache.get(config); a hit is returned as it is.
Lookup(l) ==
    /\ pc[l] = "get"
    /\ LET m == CacheGet(operator_cache, MatmulConfig(args[l]))
       IN  /\ bitblas_matmul' = [bitblas_matmul EXCEPT ![l] = m]
           /\ pc' = [pc EXCEPT ![l] = IF m = None THEN "build" ELSE "buffers"]
    /\ cacheOps' = [cacheOps EXCEPT ![l] = @ + 1]
    /\ UNCHANGED <<layerVars, codec, args, err, allocated, operator_cache, database, tuned,
                   tuning_message_shown, tuneRuns, warmupRuns, hydrations,
                   doneBefore, db0>>

\* bitblas_matmul = Matmul(config, target=BITBLAS_TARGET, enable_tuning=False)
Build(l) ==
    /\ pc[l] = "build"
    /\ LET m == Matmul(l, MatmulConfig(args[l]))
       IN  /\ bitblas_matmul' = [bitblas_matmul EXCEPT ![l] = m]
           /\ tuned' = Put(tuned, m, 0)
    /\ pc' = [pc EXCEPT ![l] = IF args[l].enable_tuning THEN "tune" ELSE "buffers"]
    /\ UNCHANGED <<layerVars, codec, args, err, allocated, operator_cache, database,
                   tuning_message_shown, tuneRuns, warmupRuns, hydrations,
                   cacheOps, doneBefore, db0>>

\* the one-time message, then bitblas_matmul.hardware_aware_finetune(topk=20)
Tune(l) ==
    /\ pc[l] = "tune"
    /\ tuning_message_shown' = TRUE
    /\ tuned' = Inc(tuned, bitblas_matmul[l])
    /\ tuneRuns' = Inc(tuneRuns, MatmulConfig(args[l]))
    /\ pc' = [pc EXCEPT ![l] = "add"]
    /\ UNCHANGED <<layerVars, codec, args, err, bitblas_matmul, allocated, operator_cache, database,
                   warmupRuns, hydrations, cacheOps, doneBefore, db0>>

\* Mutant of Add: the tuned operator is not put into the cache.
Add_Forgotten(l) ==
    /\ pc[l] = "add"
    /\ cacheOps' = [cacheOps EXCEPT ![l] = @ + 1]
    /\ pc' = [pc EXCEPT ![l] = "save"]
    /\ UNCHANGED <<layerVars, codec, args, err, bitblas_matmul, allocated, operator_cache, database,
                   tuned, tuning_message_shown, tuneRuns, warmupRuns, hydrations,
                   doneBefore, db0>>

\* self.operator_cache.add(config, bitblas_matmul)
Add(l) ==
    /\ pc[l] = "add"
    /\ operator_cache' = CacheAdd(operator_cache, MatmulConfig(args[l]), bitblas_matmul[l])
    /\ cacheOps' = [cacheOps EXCEPT ![l] = @ + 1]
    /\ pc' = [pc EXCEPT ![l] = "save"]
    /\ UNCHANGED <<layerVars, codec, args, err, bitblas_matmul, allocated, database, tuned,
                   tuning_message_shown, tuneRuns, warmupRuns, hydrations,
                   doneBefore, db0>>

\* self.operator_cache.save_into_database(self.database_path, BITBLAS_TARGET)
Save(l) ==
    /\ pc[l] = "save"
    /\ database' = CacheSave(operator_cache, database)
    /\ cacheOps' = [cacheOps EXCEPT ![l] = @ + 1]
    /\ pc' = [pc EXCEPT ![l] = "buffers"]
    /\ UNCHANGED <<layerVars, codec, args, err, bitblas_matmul, allocated, operator_cache, tuned,
                   tuning_message_shown, tuneRuns, warmupRuns, hydrations,
                   doneBefore, db0>>

\* return bitblas_matmul; self.bits, self.source_format; _initialize_buffers(...)
InitializeBuffers(l) ==
    /\ pc[l] = "buffers"
    /\ allocated' = [allocated EXCEPT ![l] = TRUE]
    /\ pc' = [pc EXCEPT ![l] = "done"]
    /\ UNCHANGED <<layerVars, codec, args, err, bitblas_matmul, operator_cache, database, tuned,
                   tuning_message_shown, tuneRuns, warmupRuns, hydrations,
                   cacheOps, doneBefore, db0>>

WarmupsSoFar == LET RECURSIVE Sum(_)
                    Sum(S) == IF S = {} THEN 0
                              ELSE LET c == CHOOSE x \in S : TRUE
                                   IN  warmupRuns[c] + Sum(S \ {c})
                IN  Sum(DOMAIN warmupRuns)

\* Linear.warmup: self.bitblas_matmul.hardware_aware_finetune(topk=topk)
Warmup(l) ==
    /\ pc[l] = "done"
    /\ WarmupsSoFar < MaxWarmups
    /\ tuned' = Inc(tuned, bitblas_matmul[l])
    /\ tuneRuns' = Inc(tuneRuns, MatmulConfig(args[l]))
    /\ warmupRuns' = Inc(warmupRuns, MatmulConfig(args[l]))
    /\ UNCHANGED <<layerVars, codec, pc, args, err, bitblas_matmul, allocated, operator_cache,
                   database, tuning_message_shown, hydrations, cacheOps,
                   doneBefore, db0>>

\* Constructor arguments of the cache specifications: two signatures.
InFeaturesArgs == {16, 32}
OutFeaturesArgs == {16}
GroupSizeArgs == {<<-1>>}
Signatures == {<<16, 16, 16>>, <<16, 32, 32>>}

\* Constructor arguments of the validation specification.
InFeaturesWide == {10, 16}
OutFeaturesWide == {16, 20}
GroupSizeWide == {<<>>, <<-1>>, <<0>>, <<3>>, <<8>>}

CacheInit ==
    /\ pc = [l \in Layers |-> "idle"]
    /\ args = [l \in Layers |-> NoArgs]
    /\ err = [l \in Layers |-> "none"]
    /\ bitblas_matmul = [l \in Layers |-> None]
    /\ allocated = [l \in Layers |-> FALSE]
    /\ operator_cache = <<>>
    /\ tuned = <<>>
    /\ tuning_message_shown = FALSE
    /\ tuneRuns = <<>>
    /\ warmupRuns = <<>>
    /\ hydrations = 0
    /\ cacheOps = [l \in Layers |-> 0]
    /\ doneBefore = [l \in Layers |-> {}]

\* The state of the variables a specification does not use.
NoLayer ==
    /\ layer = <<>> /\ weight = <<>> /\ qweight = <<>> /\ scales = <<>>
    /\ zeros = <<>> /\ bias = <<>> /\ q_params = <<>> /\ lib_call = <<>>
    /\ n_calls = 0 /\ gptq_module = <<>> /\ intzeros = <<>> /\ outcome = "none"
NoCodec == codec = <<>>
NoCache == CacheInit /\ database = {} /\ db0 = {}

\* A fresh process: an empty cache, and whatever earlier runs left in the database.
Init ==
    /\ CacheInit
    /\ database \in SUBSET Signatures
    /\ db0 = database
    /\ NoLayer /\ NoCodec

\* Layers constructed concurrently (one thread each) against the shared cache.
Next ==
    \/ \E l \in Layers, i \in InFeaturesArgs, o \in OutFeaturesArgs,
          g \in GroupSizeArgs, t \in BOOLEAN : Construct(l, i, o, g, t)
    \/ \E l \in Layers : CheckSize(l)
    \/ \E l \in Layers : LoadFromDatabase(l)
    \/ \E l \in Layers : Lookup(l)
    \/ \E l \in Layers : Build(l)
    \/ \E l \in Layers : Tune(l)
    \/ \E l \in Layers : Add(l)
    \/ \E l \in Layers : Save(l)
    \/ \E l \in Layers : InitializeBuffers(l)
    \/ \E l \in Layers : Warmup(l)

Spec == Init /\ [][Next]_vars

\* Layers constructed one after the other.
NextSeq ==
    \/ \E l \in Layers, i \in InFeaturesArgs, o \in OutFeaturesArgs,
          g \in GroupSizeArgs, t \in BOOLEAN :
            NoneRunning /\ Construct(l, i, o, g, t)
    \/ \E l \in Layers : CheckSize(l)
    \/ \E l \in Layers : LoadFromDatabase(l)
    \/ \E l \in Layers : Lookup(l)
    \/ \E l \in Layers : Build(l)
    \/ \E l \in Layers : Tune(l)
    \/ \E l \in Layers : Add(l)
    \/ \E l \in Layers : Save(l)
    \/ \E l \in Layers : InitializeBuffers(l)
    \/ \E l \in Layers : Warmup(l)

SpecSeq == Init /\ [][NextSeq]_vars

\* Layers constructed one after the other, over valid and invalid arguments.
NextInit ==
    \/ \E l \in Layers, i \in InFeaturesWide, o \in OutFeaturesWide,
          g \in GroupSizeWide, t \in BOOLEAN :
            NoneRunning /\ Construct(l, i, o, g, t)
    \/ \E l \in Layers : CheckSize(l)
    \/ \E l \in Layers : LoadFromDatabase(l)
    \/ \E l \in Layers : Lookup(l)
    \/ \E l \in Layers : Build(l)
    \/ \E l \in Layers : Tune(l)
    \/ \E l \in Layers : Add(l)
    \/ \E l \in Layers : Save(l)
    \/ \E l \in Layers : InitializeBuffers(l)

SpecInit == Init /\ [][NextInit]_vars

(***************************************************************************)
(* torch's fixed-width integer tensors.                                    *)
(***************************************************************************)
RECURSIVE Pow2(_)
Pow2(n) == IF n = 0 THEN 1 ELSE 2 * Pow2(n - 1)

\* A value stored into (or computed in) an int8 tensor keeps its low 8 bits.
ToInt8(x) == (((x % 256) + 128) % 256) - 128

\* x >> k on a signed integer tensor: the arithmetic shift (k <= 31).
Shr(x, k) == IF k >= 31 THEN (IF x < 0 THEN -1 ELSE 0) ELSE x \div Pow2(k)

\* Bitwise and of two naturals.
RECURSIVE And(_, _)
And(a, b) == IF a = 0 \/ b = 0 THEN 0
             ELSE (a % 2) * (b % 2) + 2 * And(a \div 2, b \div 2)

\* torch.bitwise_and(t, scalar) on an int8 tensor: the scalar is taken as int8 too,
\* and so is the result.
BitAnd8(x, scalar) == ToInt8(And(x % 256, scalar % 256))

Transpose(m) ==
    IF Len(m) = 0 THEN <<>>
    ELSE [c \in 1..Len(m[1]) |-> [r \in 1..Len(m) |-> m[r][c]]]

\* t.view(torch.int8) of an int32 matrix: four little-endian bytes per element.
ViewInt8(m) ==
    [r \in 1..Len(m) |->
        [c \in 1..(4 * Len(m[r])) |->
            ToInt8(Shr(m[r][((c - 1) \div 4) + 1], 8 * ((c - 1) % 4)))]]

\* unpack_qzeros: the int32 units shifted into an int8 tensor, plus one, masked.
unpack_qzeros(qzeros, bits) ==
    LET elems_per_int32 == 32 \div bits
        unpacked_zeros ==
            [r \in 1..Len(qzeros) |->
                [col \in 1..(Len(qzeros[r]) * elems_per_int32) |->
                    ToInt8(Shr(qzeros[r][((col - 1) \div elems_per_int32) + 1],
                               bits * ((col - 1) % elems_per_int32)))]]
    IN  [r \in 1..Len(unpacked_zeros) |->
            [col \in 1..Len(unpacked_zeros[r]) |->
                BitAnd8(ToInt8(unpacked_zeros[r][col] + 1), Pow2(bits) - 1)]]

\* unpack_qzeros_v2: the same without the plus one.
unpack_qzeros_v2(qzeros, bits) ==
    LET elems_per_int32 == 32 \div bits
        unpacked_zeros ==
            [r \in 1..Len(qzeros) |->
                [col \in 1..(Len(qzeros[r]) * elems_per_int32) |->
                    ToInt8(Shr(qzeros[r][((col - 1) \div elems_per_int32) + 1],
                               bits * ((col - 1) % elems_per_int32)))]]
    IN  [r \in 1..Len(unpacked_zeros) |->
            [col \in 1..Len(unpacked_zeros[r]) |->
                BitAnd8(unpacked_zeros[r][col], Pow2(bits) - 1)]]

\* unpack_qweight: the same on int8 units.
unpack_qweight(qw, bits) ==
    LET elems_per_int8 == 8 \div bits
        unpacked_weight ==
            [r \in 1..Len(qw) |->
                [col \in 1..(Len(qw[r]) * elems_per_int8) |->
                    ToInt8(Shr(qw[r][((col - 1) \div elems_per_int8) + 1],
                               bits * ((col - 1) % elems_per_int8)))]]
    IN  [r \in 1..Len(unpacked_weight) |->
            [col \in 1..Len(unpacked_weight[r]) |->
                BitAnd8(unpacked_weight[r][col], Pow2(bits) - 1)]]

\* bitblas.quantization.utils.general_compress: the fields of each row or-ed into
\* int8 storage units at increasing shift offsets.
RECURSIVE PackUnit(_, _, _, _)
PackUnit(row, first, k, bits) ==
    IF k = 8 \div bits THEN 0
    ELSE (row[first + k] % Pow2(bits)) * Pow2(bits * k) + PackUnit(row, first, k + 1, bits)
general_compress(m, bits) ==
    [r \in 1..Len(m) |->
        [j \in 1..(Len(m[r]) \div (8 \div bits)) |->
            ToInt8(PackUnit(m[r], (j - 1) * (8 \div bits) + 1, 0, bits))]]

(***************************************************************************)
(* One constructed layer: its buffers, forward and repack.                 *)
(***************************************************************************)
\* The shapes of the layer the buffer specifications construct.
Dims == [in_features |-> 16, out_features |-> 16, group_size |-> 8]
Groups == Dims.in_features \div Dims.group_size

ZeroMatrix(r, c) == [i \in 1..r |-> [j \in 1..c |-> 0]]
NoTensor == <<>>
Tensor(transformed, data) == [transformed |-> transformed, data |-> data]

\* _initialize_buffers: the buffers a layer has after construction.
InitialWeight(lay) ==
    IF lay.is_consistent
    THEN Tensor(FALSE, ZeroMatrix(Dims.out_features, Dims.in_features \div Dims.group_size))
    ELSE Tensor(FALSE, NoTensor)
InitialQweight(lay) ==
    IF lay.is_consistent THEN Tensor(FALSE, NoTensor)
    ELSE Tensor(FALSE, ZeroMatrix(Dims.out_features, (Dims.in_features \div 8) * lay.bit))
InitialScales(lay) ==
    IF lay.is_consistent THEN NoTensor
    ELSE ZeroMatrix(Dims.out_features, Dims.in_features \div Dims.group_size)
InitialZeros(lay) ==
    IF lay.is_consistent THEN NoTensor
    ELSE IF lay.zeros_mode = "quantized"
         THEN ZeroMatrix(Dims.in_features \div Dims.group_size,
                         (Dims.out_features \div 8) * lay.bit)
         ELSE ZeroMatrix(Dims.out_features, Dims.in_features \div Dims.group_size)
InitialBias(lay) ==
    IF lay.with_bias THEN [o \in 1..Dims.out_features |-> 0] ELSE NoTensor

Constructed(lay) ==
    /\ layer = lay
    /\ weight = InitialWeight(lay)
    /\ qweight = InitialQweight(lay)
    /\ scales = InitialScales(lay)
    /\ zeros = InitialZeros(lay)
    /\ bias = InitialBias(lay)
    /\ q_params = <<>>
    /\ lib_call = <<>>
    /\ n_calls = 0
    /\ gptq_module = <<>>
    /\ intzeros = <<>>
    /\ outcome = "none"

\* ---- forward ----
\* Mutant of InitParams: zeros are listed before scales.
InitParams_ZerosFirst(lay) ==
    IF lay.is_consistent
    THEN <<"weight">> \o (IF lay.with_bias THEN <<"bias">> ELSE <<>>)
    ELSE <<"qweight">>
         \o (IF lay.with_zeros THEN <<"zeros">> ELSE <<>>)
         \o (IF lay.with_scaling THEN <<"scales">> ELSE <<>>)
         \o (IF lay.with_bias THEN <<"bias">> ELSE <<>>)

\* init_params: the buffers whose addresses are handed to the kernel, in order.
InitParams(lay) ==
    IF lay.is_consistent
    THEN <<"weight">> \o (IF lay.with_bias THEN <<"bias">> ELSE <<>>)
    ELSE <<"qweight">>
         \o (IF lay.with_scaling THEN <<"scales">> ELSE <<>>)
         \o (IF lay.with_zeros THEN <<"zeros">> ELSE <<>>)
         \o (IF lay.with_bias THEN <<"bias">> ELSE <<>>)

\* reduce(operator.mul, A.shape[:-1], 1)
RECURSIVE LeadingProduct(_)
LeadingProduct(shape) ==
    IF Len(shape) <= 1 THEN 1
    ELSE shape[1] * LeadingProduct(Tail(shape))

\* Linear.forward. The argument list names the buffer each address points to;
\* the dynamic size m is kept beside it.
Forward(A_shape, output_given) ==
    /\ layer # <<>>
    /\ n_calls < MaxCalls
    /\ q_params' = InitParams(layer)
    /\ lib_call' = [args |-> <<"A">> \o InitParams(layer) \o <<"output">>
                               \o (IF layer.dynamic_range THEN <<"m">> ELSE <<>>)
                               \o <<"stream">>,
                    m |-> IF layer.dynamic_range THEN LeadingProduct(A_shape) ELSE 0,
                    A_shape |-> A_shape,
                    output_allocated |-> ~output_given]
    /\ n_calls' = n_calls + 1
    /\ UNCHANGED <<cacheVars, codec, layer, weight, qweight, scales, zeros, bias,
                   gptq_module, intzeros, outcome>>

\* Linear.load_and_transform_weight; an omitted tensor is NoTensor.
LoadAndTransformWeight(w, s, z, b) ==
    /\ layer # <<>>
    /\ IF layer.is_consistent
       THEN IF s # NoTensor \/ z # NoTensor
            THEN /\ outcome' = "AssertionError"
                 /\ UNCHANGED <<weight, bias>>
            ELSE /\ outcome' = "ok"
                 /\ weight' = Tensor(TRUE, w)
                 /\ bias' = IF b # NoTensor THEN b ELSE bias
       ELSE /\ outcome' = "ok"
            /\ UNCHANGED weight
            /\ bias' = IF b # NoTensor THEN b ELSE bias
    /\ IF layer.is_consistent
       THEN UNCHANGED <<qweight, scales, zeros>>
       ELSE /\ qweight' = Tensor(TRUE, w)
            /\ scales' = IF s # NoTensor THEN s ELSE scales
            /\ zeros' = IF z # NoTensor THEN z ELSE zeros
    /\ UNCHANGED <<cacheVars, codec, layer, q_params, lib_call, n_calls,
                   gptq_module, intzeros>>

\* ---- repack ----
\* Mutant of Rescale: the raw zero-points are stored.
Rescale_Raw(iz, sc) == iz

\* intzeros.to(torch.float16)[:, :] * self.scales[:, :]
Rescale(iz, sc) ==
    [r \in 1..Len(iz) |-> [g \in 1..Len(iz[r]) |-> iz[r][g] * sc[r][g]]]

SupportedZerosModes == {"original", "rescale", "quantized"}

\* What both repack functions do once the zero-points are decoded into iz.
Repack(m, iz) ==
    LET qw8 == ViewInt8(Transpose(m.qweight))
        intweight == unpack_qweight(qw8, layer.bit)
        new_scales == Transpose(m.scales)
        mode == layer.zeros_mode
    IN  /\ layer # <<>>
        /\ ~layer.is_consistent
        /\ gptq_module' = m
        /\ intzeros' = iz
        /\ qweight' = IF layer.weight_transform
                      THEN Tensor(TRUE, intweight) ELSE Tensor(FALSE, qw8)
        /\ scales' = new_scales
        /\ zeros' = IF mode = "original" THEN iz
                    ELSE IF mode = "rescale" THEN Rescale(iz, new_scales)
                    ELSE IF mode = "quantized"
                         THEN general_compress(Transpose(iz), layer.bit)
                    ELSE zeros
        /\ outcome' = IF mode \in SupportedZerosModes THEN "ok" ELSE "ValueError"
        /\ bias' = IF mode \in SupportedZerosModes /\ bias # NoTensor
                   THEN m.bias ELSE bias
        /\ UNCHANGED <<cacheVars, codec, layer, weight, q_params, lib_call, n_calls>>

repack_from_gptq(m) ==
    /\ ~m.v2
    /\ Repack(m, Transpose(unpack_qzeros(m.qzeros, layer.bit)))

repack_from_gptq_v2(m) ==
    /\ m.v2
    /\ Repack(m, Transpose(unpack_qzeros_v2(m.qzeros, layer.bit)))

\* ---- inputs ----
\* 32-bit storage units, as int32: 0x00000000, 0xFFFFFFFF, 0x0F0F0F0F, 0xC8C8C8C8,
\* 0x12345678, 0x7FFFFFFF, 0x807F80FF.
UnitPool == <<0, -1, 252645135, -926365496, 305419896, 2147483647, -2139127553>>
PoolUnit(n) == UnitPool[(n % Len(UnitPool)) + 1]

\* A foreign quantized-linear module of the layer's shapes and bit-width.
GptqModule(seed, bits, v2) ==
    [v2 |-> v2,
     qweight |-> [p \in 1..((Dims.in_features * bits) \div 32) |->
                     [o \in 1..Dims.out_features |-> PoolUnit(seed + 3 * p + o)]],
     scales |-> [g \in 1..Groups |->
                     [o \in 1..Dims.out_features |-> 1 + ((seed + g + o) % 3)]],
     qzeros |-> [g \in 1..Groups |->
                     [j \in 1..((Dims.out_features * bits) \div 32) |->
                         PoolUnit(2 * seed + g + j)]],
     bias |-> [o \in 1..Dims.out_features |-> seed + o]]

ActivationShapes == {<<16>>, <<1, 16>>, <<2, 3, 16>>}
LoadTensors == {<<<<1, 2>>>>, <<<<3, 4>>>>}

ForwardLayers ==
    [is_consistent : BOOLEAN, with_scaling : BOOLEAN, with_zeros : BOOLEAN,
     with_bias : BOOLEAN, dynamic_range : BOOLEAN, zeros_mode : {"original"},
     bit : {4}, weight_transform : {FALSE}]

RepackLayers ==
    [is_consistent : {FALSE}, with_scaling : {TRUE}, with_zeros : {TRUE},
     with_bias : BOOLEAN, dynamic_range : {TRUE},
     zeros_mode : {"original", "rescale", "quantized", "bogus"},
     bit : {2, 4, 8}, weight_transform : BOOLEAN]

\* A constructed layer that is loaded and run.
InitForward == NoCache /\ NoCodec /\ \E lay \in ForwardLayers : Constructed(lay)

NextForward ==
    \/ \E sh \in ActivationShapes, given \in BOOLEAN : Forward(sh, given)
    \/ \E w \in LoadTensors, s \in {NoTensor, <<<<5>>>>}, z \in {NoTensor, <<<<6>>>>},
          b \in {NoTensor, <<7>>} : LoadAndTransformWeight(w, s, z, b)

SpecForward == InitForward /\ [][NextForward]_vars

\* A constructed packed-storage layer that foreign modules are repacked into.
InitRepack == NoCache /\ NoCodec /\ \E lay \in RepackLayers : Constructed(lay)

NextRepack ==
    \/ \E seed \in 1..NumModules : repack_from_gptq(GptqModule(seed, layer.bit, FALSE))
    \/ \E seed \in 1..NumModules : repack_from_gptq_v2(GptqModule(seed, layer.bit, TRUE))

SpecRepack == InitRepack /\ [][NextRepack]_vars

(***************************************************************************)
(* The zero-point codec on one 32-bit storage unit.                        *)
(***************************************************************************)
UnitBytes == {0, 15, 127, 128, 200, 255}

\* The int32 whose little-endian bytes are b.
Int32FromBytes(b) ==
    b[1] + 256 * b[2] + 65536 * b[3]
      + 16777216 * (IF b[4] >= 128 THEN b[4] - 256 ELSE b[4])

InitCodec ==
    /\ NoCache /\ NoLayer
    /\ \E bits \in {1, 2, 4, 8}, b \in [1..4 -> UnitBytes] :
          codec = [bits |-> bits, bytes |-> b, done |-> FALSE,
                   corrected |-> <<>>, uncorrected |-> <<>>]

\* Both decoders applied to the one-unit tensor.
Unpack ==
    /\ codec # <<>>
    /\ ~codec.done
    /\ LET qzeros == << <<Int32FromBytes(codec.bytes)>> >>
       IN  codec' = [codec EXCEPT
                        !.done = TRUE,
                        !.corrected = unpack_qzeros(qzeros, codec.bits)[1],
                        !.uncorrected = unpack_qzeros_v2(qzeros, codec.bits)[1]]
    /\ UNCHANGED <<cacheVars, layerVars>>

NextCodec == Unpack

SpecCodec == InitCodec /\ [][NextCodec]_vars

(***************************************************************************)
(* Properties of the constructions sharing one operator cache.             *)
(***************************************************************************)
Done(l) == pc[l] = "done"
ConfigOf(l) == MatmulConfig(args[l])
\* The construction of l built its own operator (a cache miss).
Missed(l) == bitblas_matmul[l] = Matmul(l, ConfigOf(l))
\* The construction of l ran hardware tuning.
DidTune(l) == Missed(l) /\ args[l].enable_tuning
                 /\ pc[l] \in {"add", "save", "buffers", "done"}
TuneCount(l) == IF DidTune(l) THEN 1 ELSE 0
ConstructionTunes(c) == Count(tuneRuns, c) - Count(warmupRuns, c)
\* l2 is the resolution that follows l1, both with one config and enable_tuning=True.
Successive(l1, l2) ==
    /\ l1 # l2 /\ Done(l1) /\ Done(l2)
    /\ ConfigOf(l1) = ConfigOf(l2)
    /\ args[l1].enable_tuning /\ args[l2].enable_tuning
    /\ doneBefore[l2] = doneBefore[l1] \cup {l1}

\* C1 (as stated): two successive get-or-build resolutions with an identical config
\* and enable_tuning=True run hardware tuning exactly once in total, and the second
\* returns the very handle the first one inserted, without re-tuning.
C1_TunedExactlyOnce ==
    \A l1, l2 \in Layers :
        Successive(l1, l2) =>
            /\ TuneCount(l1) + TuneCount(l2) = 1
            /\ Missed(l1)
            /\ bitblas_matmul[l2] = bitblas_matmul[l1]

\* C1 (amended): two successive resolutions with an identical config and
\* enable_tuning=True run hardware tuning at most once in total: once when the first
\* one misses the cache, not at all when it finds the signature cached already (for
\* one, hydrated from the database); the second never tunes and returns the very
\* handle the first one returned, which is the one the cache holds.
C1_TunedAtMostOnce ==
    \A l1, l2 \in Layers :
        Successive(l1, l2) =>
            /\ TuneCount(l1) + TuneCount(l2) = (IF Missed(l1) THEN 1 ELSE 0)
            /\ ~DidTune(l2)
            /\ bitblas_matmul[l2] = bitblas_matmul[l1]
            /\ CacheGet(operator_cache, ConfigOf(l1)) = bitblas_matmul[l1]

\* Two successive tuning resolutions of one config, the first of which tuned.
C1_Witness ==
    \E l1, l2 \in Layers : Successive(l1, l2) /\ DidTune(l1) /\ ~Missed(l2)

\* The layers that asked for config c.
Requesters(c) == {l \in Layers : pc[l] # "idle" /\ ConfigOf(l) = c}

\* C2: when two or more layers are constructed concurrently with the same
\* never-before-seen signature and enable_tuning=True, exactly one build-and-tune
\* run happens for it and every requester ends up holding that run's handle.
C2_OneTuningRunPerSignature ==
    \A c \in Signatures :
        ( /\ c \notin db0
          /\ Cardinality(Requesters(c)) >= 2
          /\ \A l \in Requesters(c) :
                /\ Done(l) /\ args[l].enable_tuning
                /\ doneBefore[l] \cap Requesters(c) = {} )
        => /\ ConstructionTunes(c) = 1
           /\ \A l, k \in Requesters(c) : bitblas_matmul[l] = bitblas_matmul[k]

\* C3: over any sequence or interleaving of constructions sharing the cache,
\* load_from_database is started at most once.
C3_HydratedAtMostOnce == hydrations <= 1

\* C4: on every cache miss, for either value of enable_tuning, the construction
\* inserts the new handle into the cache and persists the cache; afterwards a lookup
\* of the config returns the layer's handle and a later layer with the identical
\* config holds the same handle.
C4_MissInsertsAndPersists ==
    \A l \in Layers :
        (Done(l) /\ Missed(l)) =>
            /\ CacheGet(operator_cache, ConfigOf(l)) = bitblas_matmul[l]
            /\ ConfigOf(l) \in database
            /\ \A k \in Layers :
                  (Done(k) /\ l \in doneBefore[k] /\ ConfigOf(k) = ConfigOf(l))
                  => bitblas_matmul[k] = bitblas_matmul[l]

\* b divides a: a is a multiple of b.
Divides(b, a) == \E k \in -(a * a) .. (a * a) : a = k * b
InvalidArgs(a) ==
    \/ ~Divides(16, a.in_features)
    \/ ~Divides(16, a.out_features)
    \/ ~Divides(a.group_size, a.in_features)

\* C6: if in_features or out_features is not a multiple of 16, or in_features is not
\* divisible by the effective group size, the construction fails with a ValueError
\* before the cache is read or hydrated, before an operator is built or tuned and
\* before a buffer is allocated.
C6_InvalidRejectedFirst ==
    \A l \in Layers :
        (pc[l] # "idle" /\ InvalidArgs(args[l])) =>
            /\ pc[l] = "failed"
            /\ err[l] = "ValueError"
            /\ cacheOps[l] = 0
            /\ bitblas_matmul[l] = None
            /\ ~allocated[l]

Held(h) == \E l \in Layers : Done(l) /\ bitblas_matmul[l] = h
Cached(h) == \E c \in DOMAIN operator_cache : operator_cache[c] = h

Buffers == <<weight, qweight, scales, zeros, bias>>

\* C5: repack on a layer whose zeros_mode is none of original, rescale, quantized
\* fails with the unsupported-configuration error and leaves qweight, scales, zeros
\* and bias holding the values they held before the call.
C5_UnsupportedModeLeavesBuffers ==
    [][(layer.zeros_mode \notin SupportedZerosModes)
        => /\ outcome' = "ValueError"
           /\ qweight' = qweight /\ scales' = scales
           /\ zeros' = zeros /\ bias' = bias]_vars

Optional(flag, name) == IF flag THEN <<name>> ELSE <<>>
\* The product of all but the last dimension, for the activation shapes offered.
LeadingSize(shape) ==
    IF Len(shape) = 1 THEN 1
    ELSE IF Len(shape) = 2 THEN shape[1] ELSE shape[1] * shape[2]
SizeArgumentRight ==
    lib_call.m = (IF layer.dynamic_range THEN LeadingSize(lib_call.A_shape) ELSE 0)

\* C7 (as stated): for every combination of the flags and of the storage mode, the
\* kernel is called with activation, weight-or-packed-weight, scales if scaling is
\* enabled, zeros if zeros are enabled, bias if bias is enabled, output, the dynamic
\* size iff the handle declares a dynamic range, and the stream token last.
C7_ArgumentOrder ==
    n_calls > 0 =>
        /\ lib_call.args =
              <<"A", IF layer.is_consistent THEN "weight" ELSE "qweight">>
              \o Optional(layer.with_scaling, "scales")
              \o Optional(layer.with_zeros, "zeros")
              \o Optional(layer.with_bias, "bias")
              \o <<"output">>
              \o Optional(layer.dynamic_range, "m")
              \o <<"stream">>
        /\ SizeArgumentRight

\* C7 (amended): with packed storage (A_dtype # W_dtype) every forward call invokes
\* the entry point once with activation, packed weight, scales if scaling is
\* enabled, zeros if zeros are enabled, bias if bias is enabled, output, the dynamic
\* size iff the handle declares a dynamic range, and the stream token last; with
\* consistent storage (A_dtype = W_dtype) neither scales nor zeros is passed,
\* whatever the flags: activation, weight, bias if enabled, output, dynamic size,
\* stream token. forward changes none of the parameter buffers.
C7_ArgumentOrderByStorage ==
    /\ [](n_calls > 0 =>
            /\ lib_call.args =
                  (IF layer.is_consistent
                   THEN <<"A", "weight">>
                   ELSE <<"A", "qweight">>
                        \o Optional(layer.with_scaling, "scales")
                        \o Optional(layer.with_zeros, "zeros"))
                  \o Optional(layer.with_bias, "bias")
                  \o <<"output">>
                  \o Optional(layer.dynamic_range, "m")
                  \o <<"stream">>
            /\ SizeArgumentRight)
    /\ [][n_calls' # n_calls =>
            /\ n_calls' = n_calls + 1
            /\ Buffers' = Buffers]_vars

\* A forward call of a loaded packed-storage layer with every flag set, on a
\* three-dimensional activation.
C7_Witness ==
    /\ n_calls > 0
    /\ outcome = "ok"
    /\ lib_call.args = <<"A", "qweight", "scales", "zeros", "bias", "output", "m", "stream">>
    /\ lib_call.m = 6

\* The unsigned b-bit field i of the unit whose little-endian bytes are given.
Field(bytes, bits, i) ==
    (bytes[((bits * i) \div 8) + 1] \div Pow2((bits * i) % 8)) % Pow2(bits)

\* C8: for every bit-width b in {1,2,4,8}, every 32-bit unit and every sub-field
\* index i, unpack_qzeros returns (f + 1) mod 2^b and unpack_qzeros_v2 returns f,
\* f being the unsigned b-bit field at bit offset b*i; no result is outside
\* [0, 2^b).
C8_FieldsDecoded ==
    codec.done =>
        \A i \in 0..((32 \div codec.bits) - 1) :
            LET f == Field(codec.bytes, codec.bits, i)
            IN  /\ codec.corrected[i + 1] = (f + 1) % Pow2(codec.bits)
                /\ codec.uncorrected[i + 1] = f
                /\ codec.corrected[i + 1] \in 0..(Pow2(codec.bits) - 1)
                /\ codec.uncorrected[i + 1] \in 0..(Pow2(codec.bits) - 1)

\* The zero-points of the last repack call as its decoder returns them.
Decoded ==
    IF gptq_module.v2 THEN unpack_qzeros_v2(gptq_module.qzeros, layer.bit)
    ELSE unpack_qzeros(gptq_module.qzeros, layer.bit)

\* C9: after a successful repack in rescale mode, zeros[r][g] is the zero-point the
\* decoder returned for (r, g) times scales[r][g], scales being the layer's buffer
\* after the same call (the foreign module's scales, transposed); zeros keeps the
\* shape (out_features, in_features / group_size).
C9_RescaleStoresProduct ==
    (outcome = "ok" /\ layer.zeros_mode = "rescale") =>
        /\ scales = Transpose(gptq_module.scales)
        /\ Len(zeros) = Dims.out_features
        /\ \A r \in 1..Dims.out_features :
              /\ Len(zeros[r]) = Groups
              /\ \A g \in 1..Groups :
                    /\ intzeros[r][g] = Decoded[g][r]
                    /\ zeros[r][g] = Decoded[g][r] * scales[r][g]

\* A rescale repack over an earlier one, storing a product that is no raw zero-point.
C9_Witness ==
    /\ outcome = "ok" /\ layer.zeros_mode = "rescale"
    /\ \E r \in 1..Dims.out_features, g \in 1..Groups :
          /\ intzeros[r][g] # 0
          /\ scales[r][g] # 1
          /\ zeros[r][g] = intzeros[r][g] * scales[r][g]
          /\ zeros[r][g] # intzeros[r][g]

====
